---- MODULE Spec2Model ----
(***************************************************************************)
(* Model of the DS7505 temperature sensor driver (DS7505.h, DS7505.cpp).   *)
(*                                                                         *)
(* Temperatures (C floats) are modelled as integers counting 1/Scale of a  *)
(* degree Celsius; Scale is a multiple of 16, so that the four fraction    *)
(* weights 0.5, 0.25, 0.125 and 0.0625 are whole numbers of units and the  *)
(* arithmetic of the driver on them is exact, as it is in binary floating  *)
(* point.  Bytes are integers 0..255.                                      *)
(***************************************************************************)
EXTENDS Integers, Sequences, FiniteSets, TLC

(***************************************************************************)
(* Bounds of the model.                                                    *)
(***************************************************************************)
\* sub-steps of the temperature grid inside one quantization step (1/16 C)
SubSteps == 25
\* in sequences of calls the three straps are tied alike, to 0..MaxStrap
MaxStrap == 1
\* for the address computation alone each strap is drawn from 0..MaxStrapWide
MaxStrapWide == 3
\* the wrappers are called with -MaxQuarter..MaxQuarter quarters of a degree
MaxQuarter == 8

Scale == 16 * SubSteps

(***************************************************************************)
(* Program constants.                                                      *)
(***************************************************************************)
P_TEMP == 0
P_CONF == 1
P_THYST == 2
P_TOS == 3

CMD_RECALL_DATA == 184
CMD_COPY_DATA == 72
CMD_POR == 84

\* enum Resolution (RES_09..RES_12) and enum FaultTolerance (FT_1..FT_6)
Resolution == 0..3
FaultTolerance == 0..3
FT_1 == 0
FT_6 == 3
RES_12 == 3

\* operating range tested by setThermostat, in degrees Celsius
MinCelsius == -55
MaxCelsius == 125

Byte == 0..255

(***************************************************************************)
(* C operators on unsigned integers.                                       *)
(***************************************************************************)
RECURSIVE BitAnd(_, _)
BitAnd(x, y) ==
  IF x = 0 \/ y = 0 THEN 0
  ELSE (x % 2) * (y % 2) + 2 * BitAnd(x \div 2, y \div 2)

RECURSIVE BitOr(_, _)
BitOr(x, y) ==
  IF x = 0 THEN y
  ELSE IF y = 0 THEN x
  ELSE (IF (x % 2) + (y % 2) > 0 THEN 1 ELSE 0) + 2 * BitOr(x \div 2, y \div 2)

RECURSIVE Pow2(_)
Pow2(n) == IF n = 0 THEN 1 ELSE 2 * Pow2(n - 1)

Shl(x, n) == x * Pow2(n)
Shr(x, n) == x \div Pow2(n)

\* conversion to uint8_t / byte
ToByte(x) == x % 256

\* |x| of a temperature
Fabs(v) == IF v < 0 THEN -v ELSE v

\* (byte) or (int) of a non-negative float: the integer part, in degrees
IntPart(v) == v \div Scale

(***************************************************************************)
(* DS7505::init, the address and the configuration byte it computes.       *)
(***************************************************************************)
\* a mutation of InitConfig: the resolution lands on bits 5-4
InitConfigShift4(res) == ToByte(Shl(res, 4))

\* a mutation of InitAddr: strap a1 is compared instead of shifted
InitAddrNoShift(a2, a1, a0) ==
  BitOr(BitOr(BitOr(72, Shl(BitAnd(a2, 1), 2)),
              IF BitAnd(a1, 1) < 1 THEN 1 ELSE 0),
        BitAnd(a0, 1))

InitAddr(a2, a1, a0) ==
  ToByte(BitOr(BitOr(BitOr(72, Shl(BitAnd(a2, 1), 2)),
                     Shl(BitAnd(a1, 1), 1)),
               BitAnd(a0, 1)))

InitConfig(res) == ToByte(Shl(res, 5))

(***************************************************************************)
(* The bus.  A transaction is a record: kind "write" is one               *)
(* beginTransmission .. endTransmission with the bytes sent in between,    *)
(* kind "read" is one requestFrom with the bytes received.                 *)
(***************************************************************************)
WriteTx(addr, bytes) == [kind |-> "write", addr |-> addr, data |-> bytes]
ReadTx(addr, bytes) == [kind |-> "read", addr |-> addr, data |-> bytes]

\* a mutation of ConfigTx: the byte sent is the argument
ConfigTxArgument(addr, cached, configByte) == WriteTx(addr, <<P_CONF, configByte>>)

\* The transaction of DS7505::setConfigRegister(configByte) on a driver
\* whose fields are addr and cached: the byte sent is the field _configByte.
ConfigTx(addr, cached, configByte) == WriteTx(addr, <<P_CONF, cached>>)

\* a mutation of CommandTx: a register pointer precedes the command code
CommandTxWithPointer(addr, cmdSet) == WriteTx(addr, <<P_CONF, cmdSet>>)

\* a mutation of CommandTx: the command goes to the address of straps 0, 0, 0
CommandTxFixedAddr(addr, cmdSet) == WriteTx(72, <<cmdSet>>)

\* the transaction of DS7505::sendCommand(cmdSet)
CommandTx(addr, cmdSet) == WriteTx(addr, <<cmdSet>>)

(***************************************************************************)
(* DS7505::getTemp, the value computed from the two bytes received.        *)
(***************************************************************************)
\* the condition of the if: h & 0x80 == 0x80 is h & (0x80 == 0x80)
SignTest(h) == BitAnd(h, IF 128 = 128 THEN 1 ELSE 0) # 0

DecodeHigh(h) == IF SignTest(h) THEN BitAnd(h, 127) ELSE h

DecodeFraction(l) ==
    (Scale \div 2) * Shr(BitAnd(l, 128), 7)
  + (Scale \div 4) * Shr(BitAnd(l, 64), 6)
  + (Scale \div 8) * Shr(BitAnd(l, 32), 5)
  + (Scale \div 16) * Shr(BitAnd(l, 16), 4)

\* the value returned: temp; the sign s is computed and not used
GetTempValue(h, l) == DecodeFraction(l) + DecodeHigh(h) * Scale

(***************************************************************************)
(* DS7505::setThermostat: the gate and the encoding of one setpoint.       *)
(***************************************************************************)
\* a mutation of Rejected: the ordering of the two setpoints is not tested
RejectedNoOrder(tos, thyst) ==
  \/ tos < MinCelsius * Scale
  \/ thyst < MinCelsius * Scale
  \/ tos > MaxCelsius * Scale
  \/ thyst > MaxCelsius * Scale

Rejected(tos, thyst) ==
  \/ tos < thyst
  \/ tos < MinCelsius * Scale
  \/ thyst < MinCelsius * Scale
  \/ tos > MaxCelsius * Scale
  \/ thyst > MaxCelsius * Scale

EncodeHigh(v) ==
  IF v >= 0 THEN ToByte(IntPart(v))
  ELSE BitAnd(128, ToByte(IntPart(Fabs(v))))

\* the remainder tosr / thystr before the four tests
Remainder(v) == Fabs(v) - IntPart(Fabs(v)) * Scale

\* a mutation of EncodeLow: the last test (0.0625) is missing
EncodeLowNoLastBit(v) ==
  LET r0 == Remainder(v)
      b7 == IF r0 >= Scale \div 2 THEN 128 ELSE 0
      r1 == IF r0 >= Scale \div 2 THEN r0 - Scale \div 2 ELSE r0
      b6 == IF r1 >= Scale \div 4 THEN 64 ELSE 0
      r2 == IF r1 >= Scale \div 4 THEN r1 - Scale \div 4 ELSE r1
      b5 == IF r2 >= Scale \div 8 THEN 32 ELSE 0
  IN  BitOr(BitOr(b7, b6), b5)

\* a mutation of EncodeLow: the weights are not subtracted from the remainder
EncodeLowNoSubtract(v) ==
  LET r0 == Remainder(v)
      b7 == IF r0 >= Scale \div 2 THEN 128 ELSE 0
      b6 == IF r0 >= Scale \div 4 THEN 64 ELSE 0
      b5 == IF r0 >= Scale \div 8 THEN 32 ELSE 0
      b4 == IF r0 >= Scale \div 16 THEN 16 ELSE 0
  IN  BitOr(BitOr(BitOr(BitOr(0, b7), b6), b5), b4)

EncodeLow(v) ==
  LET r0 == Remainder(v)
      b7 == IF r0 >= Scale \div 2 THEN 128 ELSE 0
      r1 == IF r0 >= Scale \div 2 THEN r0 - Scale \div 2 ELSE r0
      b6 == IF r1 >= Scale \div 4 THEN 64 ELSE 0
      r2 == IF r1 >= Scale \div 4 THEN r1 - Scale \div 4 ELSE r1
      b5 == IF r2 >= Scale \div 8 THEN 32 ELSE 0
      r3 == IF r2 >= Scale \div 8 THEN r2 - Scale \div 8 ELSE r2
      b4 == IF r3 >= Scale \div 16 THEN 16 ELSE 0
  IN  BitOr(BitOr(BitOr(BitOr(0, b7), b6), b5), b4)

\* a mutation of SetFaultTolerance: F1F0 are not cleared first
SetFaultToleranceNoClear(cached, ft) == ToByte(BitOr(cached, Shl(ft, 3)))

\* _configByte &= 0xE7; _configByte |= ft << 3;
SetFaultTolerance(cached, ft) ==
  ToByte(BitOr(BitAnd(cached, 231), Shl(ft, 3)))

\* a mutation of ThermostatTxs: the hysteresis is written before the trip
ThermostatTxsHystFirst(addr, cached, tos, thyst, ft) ==
  << WriteTx(addr, <<P_THYST, EncodeHigh(thyst), EncodeLow(thyst)>>),
     WriteTx(addr, <<P_TOS, EncodeHigh(tos), EncodeLow(tos)>>),
     ConfigTx(addr, SetFaultTolerance(cached, ft), SetFaultTolerance(cached, ft)) >>

\* a mutation of ThermostatTxs: the configuration is written first
ThermostatTxsConfigFirst(addr, cached, tos, thyst, ft) ==
  << ConfigTx(addr, SetFaultTolerance(cached, ft), SetFaultTolerance(cached, ft)),
     WriteTx(addr, <<P_TOS, EncodeHigh(tos), EncodeLow(tos)>>),
     WriteTx(addr, <<P_THYST, EncodeHigh(thyst), EncodeLow(thyst)>>) >>

\* the transactions of an accepted setThermostat, in the order of the code
ThermostatTxs(addr, cached, tos, thyst, ft) ==
  << WriteTx(addr, <<P_TOS, EncodeHigh(tos), EncodeLow(tos)>>),
     WriteTx(addr, <<P_THYST, EncodeHigh(thyst), EncodeLow(thyst)>>),
     ConfigTx(addr, SetFaultTolerance(cached, ft), SetFaultTolerance(cached, ft)) >>

(***************************************************************************)
(* State.                                                                  *)
(*   i2cAddr, configByte  the fields _i2cAddr and _configByte              *)
(*   initialized          init has been called on the handle               *)
(*   bus                  the transactions issued by the most recent call  *)
(*   call                 the most recent call: its name and arguments     *)
(*   ret                  the value returned by the most recent getTemp    *)
(*   hist                 history of the calls, for the properties         *)
(*   cx                   position and data of the codec test sequence     *)
(*   wire                 the transport and the device behind it: the      *)
(*                        transactions of the most recent call that        *)
(*                        failed, and the registers of the device          *)
(*   rd                   position of a getTemp call in progress           *)
(*   wr                   the convenience wrapper called, and its inputs   *)
(***************************************************************************)
VARIABLES i2cAddr, configByte, initialized, bus, call, ret, hist, cx,
          wire, rd, wr

vars == <<i2cAddr, configByte, initialized, bus, call, ret, hist, cx,
          wire, rd, wr>>

\* a temperature given in hundredths of a degree, on the grid of the model
Hundredths(c) ==
  IF c >= 0 THEN (c * Scale) \div 100 ELSE -(((-c) * Scale) \div 100)

\* the fields of a handle before init: the constructor DS7505() {} sets
\* neither, so they hold whatever the storage held
UninitBytes == {0, 255}

\* inputs of the calls
Straps == 0..MaxStrap
Setpoints ==
  { MinCelsius * Scale - 1, Hundredths(-1050), Hundredths(2000),
    MaxCelsius * Scale + 1 }
ConfigArgs == {4, 255}
CommandArgs == {CMD_RECALL_DATA, CMD_COPY_DATA, CMD_POR}
Registers == {P_TEMP, P_TOS}
RxPairs == { <<32, 128>>, <<201, 255>> }

NoCall == [op |-> "none", args |-> <<>>]
CxIdle == [pc |-> "idle", v |-> 0, h |-> 0, l |-> 0]
WireIdle ==
  [nack |-> {}, tos |-> <<0, 0>>, thyst |-> <<0, 0>>, conf |-> 0, seen |-> {}]
RdIdle == [pc |-> "idle", reg |-> 0, live |-> TRUE, dev |-> <<0, 0>>, n |-> 0,
           rx |-> <<>>, h |-> 0, l |-> 0]
WrIdle == [fn |-> "none", t |-> 0, hy |-> 0, done |-> FALSE]

Init ==
  /\ i2cAddr \in UninitBytes
  /\ configByte \in UninitBytes
  /\ initialized = FALSE
  /\ bus = <<>>
  /\ call = NoCall
  /\ ret = 0
  /\ hist = [res |-> 0, ft |-> 0, thermoOnly |-> FALSE, lastReq |-> 0,
             straps |-> <<0, 0, 0>>]
  /\ cx = CxIdle
  /\ wire = WireIdle
  /\ rd = RdIdle
  /\ wr = WrIdle

(***************************************************************************)
(* The operations of the driver.  Each leaves cx, wire, rd and wr to its   *)
(* caller.                                                                 *)
(***************************************************************************)
init(a2, a1, a0, res) ==
  /\ configByte' = InitConfig(res)
  /\ i2cAddr' = InitAddr(a2, a1, a0)
  /\ bus' = << ConfigTx(i2cAddr', configByte', configByte') >>
  /\ initialized' = TRUE
  /\ call' = [op |-> "init", args |-> <<a2, a1, a0, res>>]
  /\ ret' = 0
  /\ hist' = [res |-> res, ft |-> 0, thermoOnly |-> TRUE,
              lastReq |-> InitConfig(res), straps |-> <<a2, a1, a0>>]

setConfigRegister(configByte_arg) ==
  /\ bus' = << ConfigTx(i2cAddr, configByte, configByte_arg) >>
  /\ call' = [op |-> "setConfigRegister", args |-> <<configByte_arg>>]
  /\ ret' = 0
  /\ hist' = [hist EXCEPT !.thermoOnly = FALSE, !.lastReq = configByte_arg]
  /\ UNCHANGED <<i2cAddr, configByte, initialized>>

sendCommand(cmdSet) ==
  /\ bus' = << CommandTx(i2cAddr, cmdSet) >>
  /\ call' = [op |-> "sendCommand", args |-> <<cmdSet>>]
  /\ ret' = 0
  /\ hist' = [hist EXCEPT !.thermoOnly = FALSE]
  /\ UNCHANGED <<i2cAddr, configByte, initialized>>

\* h and l are the two bytes the device answers.  The endTransmission after
\* the two receive calls has no beginTransmission and no send before it: it
\* transmits an empty buffer to the address of the last transmission.
getTemp(regPdef, h, l) ==
  /\ bus' = << WriteTx(i2cAddr, <<regPdef>>),
               ReadTx(i2cAddr, <<h, l>>),
               WriteTx(i2cAddr, <<>>) >>
  /\ ret' = GetTempValue(h, l)
  /\ call' = [op |-> "getTemp", args |-> <<regPdef>>]
  /\ hist' = [hist EXCEPT !.thermoOnly = FALSE]
  /\ UNCHANGED <<i2cAddr, configByte, initialized>>

setThermostat(tos, thyst, ft) ==
  /\ call' = [op |-> "setThermostat", args |-> <<tos, thyst, ft>>]
  /\ ret' = 0
  /\ IF Rejected(tos, thyst)
     THEN /\ bus' = <<>>
          /\ UNCHANGED <<configByte, hist>>
     ELSE /\ bus' = ThermostatTxs(i2cAddr, configByte, tos, thyst, ft)
          /\ configByte' = SetFaultTolerance(configByte, ft)
          /\ hist' = [hist EXCEPT !.ft = ft, !.lastReq = configByte']
  /\ UNCHANGED <<i2cAddr, initialized>>

harness == <<cx, wire, rd, wr>>

(***************************************************************************)
(* The driver under any sequence of calls.                                 *)
(***************************************************************************)
CallInit ==
  \E a \in Straps, res \in Resolution :
    init(a, a, a, res) /\ UNCHANGED harness

CallSetConfigRegister ==
  \E b \in ConfigArgs : setConfigRegister(b) /\ UNCHANGED harness

CallSendCommand ==
  \E c \in CommandArgs : sendCommand(c) /\ UNCHANGED harness

CallGetTemp ==
  \E r \in Registers, rx \in RxPairs :
    getTemp(r, rx[1], rx[2]) /\ UNCHANGED harness

CallSetThermostat ==
  \E tos \in Setpoints, thyst \in Setpoints, ft \in FaultTolerance :
    setThermostat(tos, thyst, ft) /\ UNCHANGED harness

Next ==
  \/ CallInit
  \/ CallSetConfigRegister
  \/ CallSendCommand
  \/ CallGetTemp
  \/ CallSetThermostat

Spec == Init /\ [][Next]_vars

(***************************************************************************)
(* The address computation alone: init on a fresh handle, with wider strap *)
(* inputs.                                                                 *)
(***************************************************************************)
StrapsWide == 0..MaxStrapWide

CallInitWide ==
  \E a2 \in StrapsWide, a1 \in StrapsWide, a0 \in StrapsWide,
     res \in Resolution :
    init(a2, a1, a0, res) /\ UNCHANGED harness

NextAddr == CallInitWide

SpecAddr == Init /\ [][NextAddr]_vars

(***************************************************************************)
(* The codec alone, on a handle initialized by init(0, 0, 0, RES_12).      *)
(*   encode: one setThermostat call with trip = hysteresis = cx.v, for     *)
(*           every cx.v of the grid in the operating range;                *)
(*   decode: one getTemp call answered with the bytes cx.h, cx.l, for      *)
(*           every pair of bytes; then setThermostat with the value        *)
(*           returned as both setpoints, then getTemp(P_TOS), which the    *)
(*           device answers with the two bytes just written to that        *)
(*           register.                                                     *)
(***************************************************************************)
CelsiusGrid == (MinCelsius * Scale)..(MaxCelsius * Scale)

InitCodec ==
  /\ i2cAddr = InitAddr(0, 0, 0)
  /\ configByte = InitConfig(RES_12)
  /\ initialized = TRUE
  /\ bus = << ConfigTx(i2cAddr, configByte, configByte) >>
  /\ call = [op |-> "init", args |-> <<0, 0, 0, RES_12>>]
  /\ ret = 0
  /\ hist = [res |-> RES_12, ft |-> 0, thermoOnly |-> TRUE,
             lastReq |-> InitConfig(RES_12), straps |-> <<0, 0, 0>>]
  /\ wire = WireIdle
  /\ rd = RdIdle
  /\ wr = WrIdle
  /\ \/ cx \in [pc : {"encode"}, v : CelsiusGrid, h : {0}, l : {0}]
     \/ cx \in [pc : {"decode"}, v : {0}, h : Byte, l : Byte]

CodecEncode ==
  /\ cx.pc = "encode"
  /\ setThermostat(cx.v, cx.v, FT_1)
  /\ cx' = [cx EXCEPT !.pc = "encoded"]
  /\ UNCHANGED <<wire, rd, wr>>

CodecDecode ==
  /\ cx.pc = "decode"
  /\ getTemp(P_TEMP, cx.h, cx.l)
  /\ cx' = [cx EXCEPT !.pc = "decoded", !.v = ret']
  /\ UNCHANGED <<wire, rd, wr>>

CodecReencode ==
  /\ cx.pc = "decoded"
  /\ setThermostat(cx.v, cx.v, FT_1)
  /\ cx' = [cx EXCEPT !.pc = "reencoded"]
  /\ UNCHANGED <<wire, rd, wr>>

CodecReadBack ==
  /\ cx.pc = "reencoded"
  /\ bus # <<>>
  /\ getTemp(P_TOS, bus[1].data[2], bus[1].data[3])
  /\ cx' = [cx EXCEPT !.pc = "done"]
  /\ UNCHANGED <<wire, rd, wr>>

NextCodec ==
  \/ CodecEncode
  \/ CodecDecode
  \/ CodecReencode
  \/ CodecReadBack

SpecCodec == InitCodec /\ [][NextCodec]_vars

(***************************************************************************)
(* The driver on a transport that can fail.  endTransmission returns a     *)
(* status that no operation of the driver reads, so a failed transaction   *)
(* changes nothing in what the driver does next.  wire.nack holds the      *)
(* positions, in bus, of the transactions of the most recent call that     *)
(* failed; a transaction that did not fail reaches the device and, when    *)
(* it is a register write, sets the register its pointer byte selects.     *)
(* wire.seen collects the mixed outcomes accepted setThermostat calls have *)
(* left in the setpoint registers of the device.                           *)
(***************************************************************************)
DeviceWrite(w, tx) ==
  IF tx.kind = "write" /\ Len(tx.data) = 3 /\ tx.data[1] = P_TOS
    THEN [w EXCEPT !.tos = <<tx.data[2], tx.data[3]>>]
  ELSE IF tx.kind = "write" /\ Len(tx.data) = 3 /\ tx.data[1] = P_THYST
    THEN [w EXCEPT !.thyst = <<tx.data[2], tx.data[3]>>]
  ELSE IF tx.kind = "write" /\ Len(tx.data) = 2 /\ tx.data[1] = P_CONF
    THEN [w EXCEPT !.conf = tx.data[2]]
  ELSE w

RECURSIVE Deliver(_, _, _, _)
Deliver(w, txs, nack, i) ==
  IF i > Len(txs) THEN w
  ELSE Deliver(IF i \in nack THEN w ELSE DeviceWrite(w, txs[i]),
               txs, nack, i + 1)

\* the mixed outcomes of a call that went from the registers of w to those
\* of w2 while sending the setpoint bytes newTos and newThyst
Mixed(w, w2, newTos, newThyst) ==
  (IF w2.tos = newTos /\ w.tos # newTos /\ w2.thyst = w.thyst
      /\ w.thyst # newThyst
   THEN {"tripNewHystOld"} ELSE {})
  \cup
  (IF w2.thyst = newThyst /\ w.thyst # newThyst /\ w2.tos = w.tos
      /\ w.tos # newTos
   THEN {"hystNewTripOld"} ELSE {})

\* the transport and the device after a call that issued txs, of which the
\* transactions at the positions nack failed
WireAfter(w, txs, nack) ==
  LET w2 == Deliver(w, txs, nack, 1)
      sp == Len(txs) = 3 /\ Len(txs[1].data) = 3 /\ Len(txs[2].data) = 3
      tagged ==
        IF sp THEN Mixed(w, w2, <<txs[1].data[2], txs[1].data[3]>>,
                                <<txs[2].data[2], txs[2].data[3]>>)
        ELSE {}
  IN  [w2 EXCEPT !.nack = nack, !.seen = w.seen \cup tagged]

FaultSetpoints == { Hundredths(-1050), Hundredths(2000) }
FaultTolerances == {FT_1, FT_6}
FaultResolutions == {0, RES_12}

InitFault ==
  /\ i2cAddr = InitAddr(0, 0, 0)
  /\ configByte = InitConfig(RES_12)
  /\ initialized = TRUE
  /\ bus = << ConfigTx(i2cAddr, configByte, configByte) >>
  /\ call = [op |-> "init", args |-> <<0, 0, 0, RES_12>>]
  /\ ret = 0
  /\ hist = [res |-> RES_12, ft |-> 0, thermoOnly |-> TRUE,
             lastReq |-> InitConfig(RES_12), straps |-> <<0, 0, 0>>]
  /\ cx = CxIdle
  /\ wire = [WireIdle EXCEPT !.conf = InitConfig(RES_12)]
  /\ rd = RdIdle
  /\ wr = WrIdle

FaultInit ==
  \E res \in FaultResolutions, n \in SUBSET {1} :
    /\ init(0, 0, 0, res)
    /\ wire' = WireAfter(wire, bus', n)
    /\ UNCHANGED <<cx, rd, wr>>

FaultSetThermostat ==
  \E tos \in FaultSetpoints, thyst \in FaultSetpoints,
     ft \in FaultTolerances, n \in SUBSET {1, 2, 3} :
    /\ setThermostat(tos, thyst, ft)
    /\ n \subseteq 1..Len(bus')
    /\ wire' = WireAfter(wire, bus', n)
    /\ UNCHANGED <<cx, rd, wr>>

\* the register-select write fails or not; the two bytes arrive either way
FaultGetTemp ==
  \E rx \in RxPairs, n \in SUBSET {1} :
    /\ getTemp(P_TOS, rx[1], rx[2])
    /\ wire' = WireAfter(wire, bus', n)
    /\ UNCHANGED <<cx, rd, wr>>

NextFault ==
  \/ FaultInit
  \/ FaultSetThermostat
  \/ FaultGetTemp

SpecFault == InitFault /\ [][NextFault]_vars

(***************************************************************************)
(* DS7505::getTemp step by step, on a transport that delivers the bytes of *)
(* the device one at a time (rd.live) or never (~rd.live).                 *)
(*   rd.pc   "idle", "waitHigh" (the first while loop), "waitLow" (the     *)
(*           second), "end" (both bytes received), "done" (returned)       *)
(*   rd.dev  the two bytes the device sends, rd.n how many have arrived    *)
(*   rd.rx   the receive buffer of Wire                                    *)
(* The last step is the whole of getTemp with the two bytes received.      *)
(***************************************************************************)
\* a mutation of Available: the loop waits until two bytes are buffered
AvailableTwo(rx) == Len(rx) > 1

\* Wire.available()
Available(rx) == Len(rx) > 0

ReadRegisters == {P_TEMP, P_THYST, P_TOS}
ReadBytes == {0, 32, 201} \X {0, 128, 255}

InitRead ==
  /\ i2cAddr = InitAddr(0, 0, 0)
  /\ configByte = InitConfig(RES_12)
  /\ initialized = TRUE
  /\ bus = << ConfigTx(i2cAddr, configByte, configByte) >>
  /\ call = [op |-> "init", args |-> <<0, 0, 0, RES_12>>]
  /\ ret = 0
  /\ hist = [res |-> RES_12, ft |-> 0, thermoOnly |-> TRUE,
             lastReq |-> InitConfig(RES_12), straps |-> <<0, 0, 0>>]
  /\ cx = CxIdle
  /\ wire = [WireIdle EXCEPT !.conf = InitConfig(RES_12)]
  /\ wr = WrIdle
  /\ rd \in [pc : {"idle"}, reg : ReadRegisters, live : BOOLEAN,
             dev : ReadBytes, n : {0}, rx : {<<>>}, h : {0}, l : {0}]

\* beginTransmission, send(regPdef), endTransmission, requestFrom(.., 2)
ReadStart ==
  /\ rd.pc = "idle"
  /\ bus' = << WriteTx(i2cAddr, <<rd.reg>>) >>
  /\ call' = [op |-> "getTemp", args |-> <<rd.reg>>]
  /\ ret' = 0
  /\ hist' = [hist EXCEPT !.thermoOnly = FALSE]
  /\ rd' = [rd EXCEPT !.pc = "waitHigh"]
  /\ UNCHANGED <<i2cAddr, configByte, initialized, cx, wire, wr>>

\* the transport makes the next byte of the device available
TransportDeliver ==
  /\ rd.pc \in {"waitHigh", "waitLow"}
  /\ rd.live
  /\ rd.n < 2
  /\ rd' = [rd EXCEPT !.n = rd.n + 1, !.rx = Append(rd.rx, rd.dev[rd.n + 1])]
  /\ UNCHANGED <<i2cAddr, configByte, initialized, bus, call, ret, hist,
                 cx, wire, wr>>

\* while (!Wire.available()) { }; byte h = Wire.receive();
ReadHigh ==
  /\ rd.pc = "waitHigh"
  /\ Available(rd.rx)
  /\ rd' = [rd EXCEPT !.pc = "waitLow", !.h = Head(rd.rx), !.rx = Tail(rd.rx)]
  /\ UNCHANGED <<i2cAddr, configByte, initialized, bus, call, ret, hist,
                 cx, wire, wr>>

\* while (!Wire.available()) { }; byte l = Wire.receive();
ReadLow ==
  /\ rd.pc = "waitLow"
  /\ Available(rd.rx)
  /\ rd' = [rd EXCEPT !.pc = "end", !.l = Head(rd.rx), !.rx = Tail(rd.rx)]
  /\ UNCHANGED <<i2cAddr, configByte, initialized, bus, call, ret, hist,
                 cx, wire, wr>>

ReadReturn ==
  /\ rd.pc = "end"
  /\ getTemp(rd.reg, rd.h, rd.l)
  /\ rd' = [rd EXCEPT !.pc = "done"]
  /\ UNCHANGED <<cx, wire, wr>>

NextRead ==
  \/ ReadStart
  \/ TransportDeliver
  \/ ReadHigh
  \/ ReadLow
  \/ ReadReturn

\* the processor runs the driver and a live transport delivers
SpecRead == InitRead /\ [][NextRead]_vars /\ WF_vars(NextRead)

(***************************************************************************)
(* The convenience wrappers of DS7505.h, each called once on a handle      *)
(* initialized by init(0, 0, 0, RES_12).  Fahrenheit values count 1/Scale  *)
(* of a degree Fahrenheit; the conversion to Celsius rounds to the nearest *)
(* value of the grid, as the conversion of the double result to float      *)
(* rounds to the nearest float.                                            *)
(***************************************************************************)
\* n / d rounded to the nearest integer, d > 0
RoundDiv(n, d) == (2 * n + d) \div (2 * d)

\* (f - 32.0) * 5.0 / 9.0
ToCelsius(f) == RoundDiv((f - 32 * Scale) * 5, 9)

\* a mutation of DefaultHysteresis: 5 degrees above the trip
DefaultHysteresisAbove(t) == t + 5 * Scale

\* t - 5.0
DefaultHysteresis(t) == t - 5 * Scale

DefaultFaultTolerance == FT_1

setThermostatC_3(tos, thyst, ft) == setThermostat(tos, thyst, ft)

setThermostatF_3(tos, thyst, ft) ==
  setThermostat(ToCelsius(tos), ToCelsius(thyst), ft)

setThermostatC_2(tos, thyst) ==
  setThermostatC_3(tos, thyst, DefaultFaultTolerance)

setThermostatF_2(tos, thyst) ==
  setThermostatF_3(tos, thyst, DefaultFaultTolerance)

setThermostatC_1(t) == setThermostatC_2(t, DefaultHysteresis(t))

setThermostatF_1(t) == setThermostatF_2(t, DefaultHysteresis(t))

WrapTemps == { q * (Scale \div 4) : q \in (-MaxQuarter)..MaxQuarter }

InitWrap ==
  /\ i2cAddr = InitAddr(0, 0, 0)
  /\ configByte = InitConfig(RES_12)
  /\ initialized = TRUE
  /\ bus = << ConfigTx(i2cAddr, configByte, configByte) >>
  /\ call = [op |-> "init", args |-> <<0, 0, 0, RES_12>>]
  /\ ret = 0
  /\ hist = [res |-> RES_12, ft |-> 0, thermoOnly |-> TRUE,
             lastReq |-> InitConfig(RES_12), straps |-> <<0, 0, 0>>]
  /\ cx = CxIdle
  /\ wire = [WireIdle EXCEPT !.conf = InitConfig(RES_12)]
  /\ rd = RdIdle
  /\ \/ wr \in [fn : {"C1", "F1"}, t : WrapTemps, hy : {0}, done : {FALSE}]
     \/ wr \in [fn : {"C2", "F2"}, t : WrapTemps, hy : WrapTemps,
                done : {FALSE}]

WrapC1 ==
  /\ wr.fn = "C1" /\ ~wr.done
  /\ setThermostatC_1(wr.t)
  /\ wr' = [wr EXCEPT !.done = TRUE]
  /\ UNCHANGED <<cx, wire, rd>>

WrapF1 ==
  /\ wr.fn = "F1" /\ ~wr.done
  /\ setThermostatF_1(wr.t)
  /\ wr' = [wr EXCEPT !.done = TRUE]
  /\ UNCHANGED <<cx, wire, rd>>

WrapC2 ==
  /\ wr.fn = "C2" /\ ~wr.done
  /\ setThermostatC_2(wr.t, wr.hy)
  /\ wr' = [wr EXCEPT !.done = TRUE]
  /\ UNCHANGED <<cx, wire, rd>>

WrapF2 ==
  /\ wr.fn = "F2" /\ ~wr.done
  /\ setThermostatF_2(wr.t, wr.hy)
  /\ wr' = [wr EXCEPT !.done = TRUE]
  /\ UNCHANGED <<cx, wire, rd>>

NextWrap ==
  \/ WrapC1
  \/ WrapF1
  \/ WrapC2
  \/ WrapF2

SpecWrap == InitWrap /\ [][NextWrap]_vars

(***************************************************************************)
(* Properties.  They are stated with arithmetic on the values, not with    *)
(* the operators of the model.                                             *)
(***************************************************************************)
InRange(v) == MinCelsius * Scale <= v /\ v <= MaxCelsius * Scale
Bits65(b) == (b \div 32) % 4
Bits43(b) == (b \div 8) % 4
IsThermostatCall(c) == c.op = "setThermostat"
AcceptedCall(c) ==
  /\ IsThermostatCall(c)
  /\ c.args[1] >= c.args[2]
  /\ InRange(c.args[1])
  /\ InRange(c.args[2])
RejectedCall(c) ==
  /\ IsThermostatCall(c)
  /\ \/ c.args[1] < c.args[2]
     \/ ~InRange(c.args[1])
     \/ ~InRange(c.args[2])

\* C1: a setThermostat call with trip < hysteresis, or with a setpoint
\* outside [-55, 125], issues no bus transaction and leaves _configByte and
\* _i2cAddr as they were, whatever ft and whatever the state of the driver.
C1_RejectedIsNoOp ==
  [][RejectedCall(call') =>
       /\ bus' = <<>>
       /\ configByte' = configByte
       /\ i2cAddr' = i2cAddr]_vars

\* C1 witness: an initialized driver has rejected trip -10.5 < hysteresis 20.0
C1_Witness ==
  /\ initialized
  /\ IsThermostatCall(call)
  /\ call.args[1] = Hundredths(-1050)
  /\ call.args[2] = Hundredths(2000)
  /\ bus = <<>>

\* C2: an accepted setThermostat issues exactly three write transactions to
\* the device address: the trip register (pointer 3) with the two bytes of
\* the trip, then the hysteresis register (pointer 2) with the two bytes of
\* the hysteresis, then the configuration register (pointer 1) with the
\* configuration byte.
C2_ThreeTransactionsInOrder ==
  AcceptedCall(call) =>
    /\ Len(bus) = 3
    /\ \A i \in 1..3 : bus[i].kind = "write" /\ bus[i].addr = i2cAddr
    /\ bus[1].data = <<3, EncodeHigh(call.args[1]), EncodeLow(call.args[1])>>
    /\ bus[2].data = <<2, EncodeHigh(call.args[2]), EncodeLow(call.args[2])>>
    /\ bus[3].data = <<1, configByte>>

\* C2 witness: setThermostat(20.0, -10.5, ft) has written its three registers
C2_Witness ==
  /\ initialized
  /\ AcceptedCall(call)
  /\ call.args[1] = Hundredths(2000)
  /\ call.args[2] = Hundredths(-1050)
  /\ Len(bus) = 3
  /\ bus[1].data[1] = 3

\* C3: after init(.., res) followed by setThermostat calls only, bits 6-5 of
\* _configByte are res and bits 4-3 are the ft of the most recent accepted
\* setThermostat (0 if there was none); a setThermostat call changes no
\* other bit, and an accepted one writes (previous _configByte AND 0xE7) OR
\* (ft << 3) to the configuration register.
C3_ConfigBits ==
  /\ []((initialized /\ hist.thermoOnly) =>
          /\ Bits65(configByte) = hist.res
          /\ Bits43(configByte) = hist.ft)
  /\ [][IsThermostatCall(call') =>
          /\ configByte' \div 32 = configByte \div 32
          /\ configByte' % 8 = configByte % 8
          /\ AcceptedCall(call') =>
               /\ Len(bus') = 3
               /\ bus'[3].data[2] =
                    configByte - 8 * Bits43(configByte) + 8 * call'.args[3]]_vars

\* C3 witness: after init(.., RES_12) and setThermostat calls only, the last
\* accepted one with FT_6, a call with another ft is rejected
C3_Witness ==
  /\ initialized
  /\ hist.thermoOnly
  /\ hist.res = RES_12
  /\ hist.ft = FT_6
  /\ RejectedCall(call)
  /\ call.args[3] = FT_1
  /\ configByte = 120

\* C4: setConfigRegister(b) issues exactly one transaction, [pointer 1, b],
\* for every byte b and every cached configuration byte.
C4_ConfigPassthrough ==
  call.op = "setConfigRegister" =>
    bus = << [kind |-> "write", addr |-> i2cAddr,
              data |-> <<1, call.args[1]>>] >>

\* C5: the cached configuration byte is the configuration value most
\* recently requested to be written, without bit 7; so the configuration
\* byte an accepted setThermostat writes has the bits 6-5 and 2-0 of the
\* value of the last setConfigRegister call.
C5_CacheIsLastWritten ==
  initialized => configByte = hist.lastReq % 128

\* C6: getTemp returns sign x (integer part + fraction) of the two bytes
\* received: sign -1 and integer part high AND 0x7F when bit 7 of high is
\* set, sign +1 and integer part high otherwise, fraction from bits 7-4 of
\* low in sixteenths; a high byte with bit 7 set gives a result <= 0.
C6_DecodeSignMagnitude ==
  call.op = "getTemp" =>
    LET h == bus[2].data[1]
        l == bus[2].data[2]
        frac == (l \div 16) * (Scale \div 16)
    IN  /\ ret = IF h >= 128 THEN -((h - 128) * Scale + frac)
                 ELSE h * Scale + frac
        /\ h >= 128 => ret <= 0

\* C7: the high byte written for a setpoint v is floor(v) when v >= 0 and
\* 0x80 OR floor(|v|) when v < 0, for the trip and for the hysteresis.
C7_EncodeHighByte ==
  (cx.pc = "encoded" /\ bus # <<>>) =>
    LET claimed == IF cx.v >= 0 THEN cx.v \div Scale
                   ELSE 128 + ((-cx.v) \div Scale)
    IN  /\ bus[1].data[2] = claimed
        /\ bus[2].data[2] = claimed

\* C8: the low byte written for a setpoint v in [-55, 125] is
\* floor(16 x frac(|v|)) << 4, bits 3-0 zero, for the trip and for the
\* hysteresis; 32.45 is written as high 0x20, low 0x70.
C8_EncodeLowByte ==
  cx.pc = "encoded" =>
    LET mag == IF cx.v < 0 THEN -cx.v ELSE cx.v
        claimed == (((mag % Scale) * 16) \div Scale) * 16
    IN  /\ Len(bus) = 3
        /\ bus[1].data[3] = claimed
        /\ bus[2].data[3] = claimed
        /\ claimed % 16 = 0
        /\ cx.v = Hundredths(3245) =>
             bus[1].data[2] = 32 /\ bus[1].data[3] = 112

\* C8 witness: 32.45 has been written as 0x20, 0x70 to both registers
C8_Witness ==
  /\ cx.pc = "encoded"
  /\ cx.v = Hundredths(3245)
  /\ bus[1].data = <<3, 32, 112>>
  /\ bus[2].data = <<2, 32, 112>>

C10_Address ==
  call.op = "init" =>
    /\ i2cAddr = 72 + 4 * (call.args[1] % 2) + 2 * (call.args[2] % 2)
                    + (call.args[3] % 2)
    /\ i2cAddr \in 72..79
    /\ (call.args[1] = 0 /\ call.args[2] = 0 /\ call.args[3] = 0)
         => i2cAddr = 72
    /\ (call.args[1] = 1 /\ call.args[2] = 1 /\ call.args[3] = 1)
         => i2cAddr = 79

\* C10 witness: init(2, 3, 1, res) gives 0x4B
C10_Witness ==
  /\ call.op = "init"
  /\ call.args[1] = 2
  /\ call.args[2] = 3
  /\ call.args[3] = 1
  /\ i2cAddr = 75

\* the address the claims give for the straps a2, a1, a0
ClaimedAddr(straps) ==
  72 + 4 * (straps[1] % 2) + 2 * (straps[2] % 2) + (straps[3] % 2)

\* a write of the configuration register: pointer 1 and one byte
IsConfigWrite(tx) ==
  tx.kind = "write" /\ Len(tx.data) = 2 /\ tx.data[1] = 1

\* C11: init(a2, a1, a0, res) leaves _configByte = res << 5, every other bit
\* zero, and issues exactly one transaction, [pointer 1, res << 5], to the
\* address it has just computed; also when the handle was initialized before
\* and setThermostat had set fault-tolerance bits.
C11_InitConfig ==
  call.op = "init" =>
    /\ configByte = 32 * call.args[4]
    /\ Bits43(configByte) = 0
    /\ configByte % 8 = 0
    /\ configByte < 128
    /\ bus = << [kind |-> "write", addr |-> ClaimedAddr(call.args),
                 data |-> <<1, 32 * call.args[4]>>] >>

\* C11 witness: init(1, 1, 1, RES_12) has written 0x60 to address 0x4F
C11_Witness ==
  /\ call.op = "init"
  /\ call.args = <<1, 1, 1, RES_12>>
  /\ configByte = 96
  /\ bus[1].addr = 79
  /\ bus[1].data = <<1, 96>>

\* C12: sendCommand(code) issues exactly one transaction whose only byte is
\* code, and leaves _configByte and _i2cAddr as they were.
C12_SendCommand ==
  [][call'.op = "sendCommand" =>
       /\ bus' = << [kind |-> "write", addr |-> i2cAddr,
                     data |-> <<call'.args[1]>>] >>
       /\ configByte' = configByte
       /\ i2cAddr' = i2cAddr]_vars

\* C12 witness: sendCommand(0x48) on an initialized handle
C12_Witness ==
  /\ initialized
  /\ call.op = "sendCommand"
  /\ call.args = <<72>>
  /\ Len(bus) = 1
  /\ bus[1].data = <<72>>

\* C14: after init, no call other than init changes _i2cAddr, and every
\* transaction of such a call is addressed to the address computed by the
\* most recent init.
C14_AddressFixed ==
  /\ [][call'.op # "init" => i2cAddr' = i2cAddr]_vars
  /\ [](initialized =>
          /\ i2cAddr = ClaimedAddr(hist.straps)
          /\ \A i \in 1..Len(bus) : bus[i].addr = ClaimedAddr(hist.straps))

\* C14 witness: getTemp after init(1, 1, 1, ..) talks to 0x4F three times
C14_Witness ==
  /\ initialized
  /\ hist.straps = <<1, 1, 1>>
  /\ call.op = "getTemp"
  /\ Len(bus) = 3
  /\ \A i \in 1..3 : bus[i].addr = 79

C13_ShortCircuit ==
  [][(call'.op \in {"setThermostat", "getTemp"} /\ wire'.nack # {}) =>
       /\ \A i \in 1..Len(bus') : \A j \in wire'.nack : i <= j
       /\ configByte' = configByte]_vars

\* C16: the two setpoint writes of an accepted setThermostat are not
\* atomic.  When only the hysteresis write fails the device holds the new
\* trip and the old hysteresis, and when only the trip write fails it holds
\* the new hysteresis and the old trip.
C16_NotAtomic ==
  [][AcceptedCall(call') =>
       /\ wire'.nack = {2} =>
            /\ wire'.tos = <<bus'[1].data[2], bus'[1].data[3]>>
            /\ wire'.thyst = wire.thyst
       /\ wire'.nack = {1} =>
            /\ wire'.thyst = <<bus'[2].data[2], bus'[2].data[3]>>
            /\ wire'.tos = wire.tos]_vars

\* C16 witness: both mixed outcomes have occurred, and the device now holds
\* a trip of 20.0 next to a hysteresis that the last call did not write
C16_Witness ==
  /\ wire.seen = {"tripNewHystOld", "hystNewTripOld"}
  /\ AcceptedCall(call)
  /\ wire.nack = {2}
  /\ call.args[1] = Hundredths(2000)
  /\ wire.tos = <<20, 0>>
  /\ wire.thyst # <<bus[2].data[2], bus[2].data[3]>>

\* C15: getTemp(pointer) first issues one write transaction carrying only
\* the pointer byte, then waits for each of two bytes, taking the first
\* received as high and the second as low.  On a transport that delivers,
\* the call returns; on one that never delivers it never returns; and no
\* step of the call changes _configByte.
C15_BlockingRead ==
  /\ (rd.live /\ rd.pc = "waitHigh") ~> (rd.pc = "done")
  /\ [](~rd.live => rd.pc # "done")
  /\ [](rd.pc \in {"waitHigh", "waitLow", "end"} =>
          bus = << [kind |-> "write", addr |-> i2cAddr,
                    data |-> <<rd.reg>>] >>)
  /\ [](rd.pc = "done" =>
          /\ rd.n = 2
          /\ bus[1] = [kind |-> "write", addr |-> i2cAddr,
                       data |-> <<rd.reg>>]
          /\ bus[2] = [kind |-> "read", addr |-> i2cAddr, data |-> rd.dev]
          /\ ret % Scale = (rd.dev[2] \div 16) * (Scale \div 16)
          /\ ret \div Scale \in {rd.dev[1], rd.dev[1] % 128})
  /\ [][configByte' = configByte]_vars

\* C15 witness: getTemp(P_TOS) has returned after the bytes 0x20, 0x80
\* arrived one after the other
C15_Witness ==
  /\ rd.pc = "done"
  /\ rd.live
  /\ rd.reg = 3
  /\ rd.dev = <<32, 128>>
  /\ ret = 32 * Scale + Scale \div 2
  /\ configByte = 96

\* C17 (as claimed): with hysteresis and fault tolerance omitted, the
\* hysteresis that reaches setThermostat is exactly 5.0 degrees Celsius
\* below the trip that reaches it, for the Celsius and for the Fahrenheit
\* one-argument wrapper, and every one- and two-argument wrapper passes FT_1.
C17_DefaultsAsClaimed ==
  wr.done =>
    /\ call.args[3] = 0
    /\ wr.fn \in {"C1", "F1"} => call.args[2] = call.args[1] - 5 * Scale

\* C17 (amended): the one-argument Celsius wrapper passes the trip and a
\* hysteresis 5.0 degrees Celsius below it; the one-argument Fahrenheit
\* wrapper passes the Celsius values of t and of t - 5.0 degrees Fahrenheit,
\* so the hysteresis is 25/9 of a degree Celsius below the trip, each value
\* to within the rounding of its conversion; every one- and two-argument
\* wrapper passes FT_1.
C17_Defaults ==
  wr.done =>
    /\ call.op = "setThermostat"
    /\ call.args[3] = 0
    /\ wr.fn = "C1" =>
         /\ call.args[1] = wr.t
         /\ call.args[2] = wr.t - 5 * Scale
    /\ wr.fn = "F1" =>
         LET d1 == 18 * call.args[1] - 10 * (wr.t - 32 * Scale)
             d2 == 18 * call.args[2] - 10 * (wr.t - 37 * Scale)
         IN  /\ -9 <= d1 /\ d1 <= 9
             /\ -9 <= d2 /\ d2 <= 9
             /\ call.args[1] - call.args[2] \in
                  { (25 * Scale) \div 9 - 1, (25 * Scale) \div 9,
                    (25 * Scale) \div 9 + 1 }

\* C17 witness: setThermostatF(1.5) has reached setThermostat with a
\* hysteresis less than 3 degrees Celsius below the trip, and FT_1
C17_Witness ==
  /\ wr.done
  /\ wr.fn = "F1"
  /\ wr.t = 6 * (Scale \div 4)
  /\ call.op = "setThermostat"
  /\ call.args[3] = 0
  /\ call.args[1] - call.args[2] < 3 * Scale
  /\ Len(bus) = 3

\* the value of two register bytes by the decode rule: sign from bit 7 of
\* the high byte, magnitude from its low 7 bits and bits 7-4 of the low byte
RuleValue(h, l) ==
  LET mag == (h % 128) * Scale + (l \div 16) * (Scale \div 16)
  IN  IF h >= 128 THEN -mag ELSE mag

\* C18: after an accepted setThermostat, the trip bytes written decode (by
\* the decode rule) to a value >= the value the hysteresis bytes written
\* decode to, negative setpoints included.
C18_OrderOnDevice ==
  (wr.done /\ AcceptedCall(call)) =>
    /\ Len(bus) = 3
    /\ RuleValue(bus[1].data[2], bus[1].data[3])
         >= RuleValue(bus[2].data[2], bus[2].data[3])

====
